---- MODULE Spec2Model ----
(***************************************************************************)
(* Financial-Data-Parser: the value normalizer (FormatParser) and the      *)
(* column classifier (DataTypeDetector).                                   *)
(*                                                                         *)
(* Texts are sequences of one-character strings.  A Python dict is a       *)
(* function whose DOMAIN is the set of keys the dict holds.  A float is    *)
(* the record [neg, dig, exp]: sign, significant decimal digits without    *)
(* leading or trailing zeros, and the power of ten of the last digit       *)
(* (decimal arithmetic; binary rounding is not modelled).                  *)
(***************************************************************************)
EXTENDS Integers, Sequences, FiniteSets, TLC

VARIABLES
    input,      \* the argument the caller passes: [op, null, text, cells, of]
    today,      \* the host's current date, an index into Days
    result,     \* what the last call returned or raised
    prev,       \* what the call before it returned or raised
    loaded_files,   \* ExcelProcessor.loaded_files: file path -> file info
    file_info,      \* ExcelProcessor.file_info: file path -> file info
    outcome     \* the last call of an ExcelProcessor method: [op, file_path, sheet_name, exc, value]

\* the state of the ExcelProcessor and what its caller saw last
processor == <<loaded_files, file_info, outcome>>

vars == <<input, today, result, prev, loaded_files, file_info, outcome>>

(***************************************************************************)
(* Characters                                                              *)
(***************************************************************************)
Digit == {"0", "1", "2", "3", "4", "5", "6", "7", "8", "9"}

LowerSeq == <<"a", "b", "c", "d", "e", "f", "g", "h", "i", "j", "k", "l", "m",
              "n", "o", "p", "q", "r", "s", "t", "u", "v", "w", "x", "y", "z">>

UpperSeq == <<"A", "B", "C", "D", "E", "F", "G", "H", "I", "J", "K", "L", "M",
              "N", "O", "P", "Q", "R", "S", "T", "U", "V", "W", "X", "Y", "Z">>

Lower == {LowerSeq[i] : i \in 1..26}

Upper == {UpperSeq[i] : i \in 1..26}

Letter == Lower \cup Upper

\* \w of the re module
WordChar == Letter \cup Digit \cup {"_"}

\* \s of the re module, and what str.strip() removes
Space == {" "}

CurrencyChar == {"$", "€", "₹", "£", "¥"}

DigitVal(c) == CASE c = "0" -> 0 [] c = "1" -> 1 [] c = "2" -> 2 [] c = "3" -> 3
                 [] c = "4" -> 4 [] c = "5" -> 5 [] c = "6" -> 6 [] c = "7" -> 7
                 [] c = "8" -> 8 [] c = "9" -> 9

DigitChr(n) == CASE n = 0 -> "0" [] n = 1 -> "1" [] n = 2 -> "2" [] n = 3 -> "3"
                 [] n = 4 -> "4" [] n = 5 -> "5" [] n = 6 -> "6" [] n = 7 -> "7"
                 [] n = 8 -> "8" [] n = 9 -> "9"

\* str.upper() and str.lower(), one character
UpperChr(c) == IF c \in Lower THEN UpperSeq[CHOOSE i \in 1..26 : LowerSeq[i] = c] ELSE c

LowerChr(c) == IF c \in Upper THEN LowerSeq[CHOOSE i \in 1..26 : UpperSeq[i] = c] ELSE c

upper(s) == [i \in 1..Len(s) |-> UpperChr(s[i])]

lower(s) == [i \in 1..Len(s) |-> LowerChr(s[i])]

MaxOf(S) == CHOOSE x \in S : \A y \in S : y <= x

MinOf(S) == CHOOSE x \in S : \A y \in S : x <= y

\* s[i:j] of Python with 0 <= i, j: the characters i+1..j
Slice(s, i, j) == IF j <= i THEN <<>> ELSE SubSeq(s, i + 1, IF j > Len(s) THEN Len(s) ELSE j)

startswith(s, p) == Len(s) >= Len(p) /\ SubSeq(s, 1, Len(p)) = p

endswith(s, p) == Len(s) >= Len(p) /\ SubSeq(s, Len(s) - Len(p) + 1, Len(s)) = p

Contains(s, c) == \E i \in 1..Len(s) : s[i] = c

\* str.strip()
strip(s) ==
    LET keep == {i \in 1..Len(s) : s[i] \notin Space}
    IN  IF keep = {} THEN <<>> ELSE SubSeq(s, MinOf(keep), MaxOf(keep))

\* str.replace(c, r) for a one-character c
RECURSIVE replace(_, _, _)
replace(s, c, r) ==
    IF s = <<>> THEN <<>>
    ELSE (IF Head(s) = c THEN r ELSE <<Head(s)>>) \o replace(Tail(s), c, r)

\* str.split(): the maximal runs of non-whitespace
RECURSIVE split(_)
\* t: the text without surrounding whitespace; sp: where its whitespace is
SplitAt(t, sp) ==
    IF t = <<>> THEN <<>>
    ELSE IF sp = {} THEN <<t>>
    ELSE <<SubSeq(t, 1, MinOf(sp) - 1)>> \o split(SubSeq(t, MinOf(sp), Len(t)))

split(s) == SplitAt(strip(s), {i \in 1..Len(strip(s)) : strip(s)[i] \in Space})

(***************************************************************************)
(* Regular expressions of the re module.  A pattern is a sequence of       *)
(* items [cls, min, max, eos]: between min and max characters of cls,      *)
(* greedy, with backtracking; an eos item is the $ anchor.                 *)
(***************************************************************************)
\* an item: max < 0 stands for no upper limit (+, *)
It(cls, lo, hi) == [cls |-> cls, min |-> lo, max |-> hi, eos |-> FALSE]

Eos == [cls |-> {}, min |-> 0, max |-> 0, eos |-> TRUE]

\* the number of characters of cls that follow position i, at most cap (cap < 0: any)
RECURSIVE RunLen(_, _, _, _)
RunLen(s, i, cls, cap) ==
    IF cap = 0 \/ i >= Len(s) \/ s[i + 1] \notin cls THEN 0
    ELSE 1 + RunLen(s, i + 1, cls, cap - 1)

NoMatch == [ok |-> FALSE, ends |-> <<>>]

\* items k.. of pat matched against s after its first i characters:
\* ends[j] is the position where item k+j-1 stops
RECURSIVE MatchItems(_, _, _, _)
MatchItems(pat, k, s, i) ==
    IF k > Len(pat) THEN [ok |-> TRUE, ends |-> <<>>]
    ELSE IF pat[k].eos THEN
        (IF i = Len(s)
         THEN [ok |-> TRUE, ends |-> <<i>> \o MatchItems(pat, k + 1, s, i).ends]
         ELSE NoMatch)
    ELSE
        LET run == RunLen(s, i, pat[k].cls, pat[k].max)
            fit == {n \in pat[k].min..run : MatchItems(pat, k + 1, s, i + n).ok}
        IN  IF fit = {} THEN NoMatch
            ELSE [ok |-> TRUE,
                  ends |-> <<i + MaxOf(fit)>> \o MatchItems(pat, k + 1, s, i + MaxOf(fit)).ends]

\* re.match(pat, s): a match at the start of s
re_match(pat, s) == MatchItems(pat, 1, s, 0)

\* the text item k of a match m (that began after i characters) covers
Group(s, m, i, k) == Slice(s, IF k = 1 THEN i ELSE m.ends[k - 1], m.ends[k])

\* re.search(pat, s): is there a match anywhere in s
re_search(pat, s) == \E i \in 0..Len(s) : MatchItems(pat, 1, s, i).ok

\* re.sub(pat, repl, s) where repl keeps the items in `keep` of each match:
\* leftmost matches, not overlapping
RECURSIVE SubFrom(_, _, _, _)
SubFrom(pat, keep, s, i) ==
    IF i >= Len(s) THEN <<>>
    ELSE LET m == MatchItems(pat, 1, s, i)
             end == m.ends[Len(pat)]
         IN  IF m.ok /\ end > i
             THEN LET RECURSIVE Kept(_)
                      Kept(k) == IF k > Len(pat) THEN <<>>
                                 ELSE (IF k \in keep THEN Group(s, m, i, k) ELSE <<>>)
                                      \o Kept(k + 1)
                  IN  Kept(1) \o SubFrom(pat, keep, s, end)
             ELSE <<s[i + 1]>> \o SubFrom(pat, keep, s, i + 1)

re_sub(pat, keep, s) == SubFrom(pat, keep, s, 0)

(***************************************************************************)
(* Floats: float(), repr(), and the arithmetic the parsers use             *)
(***************************************************************************)
RECURSIVE DropLeadingZeros(_)
DropLeadingZeros(d) == IF d # <<>> /\ Head(d) = "0" THEN DropLeadingZeros(Tail(d)) ELSE d

RECURSIVE TrailingZeros(_)
TrailingZeros(d) == IF d # <<>> /\ d[Len(d)] = "0" THEN 1 + TrailingZeros(SubSeq(d, 1, Len(d) - 1)) ELSE 0

RECURSIVE DigitsToNat(_)
DigitsToNat(d) == IF d = <<>> THEN 0 ELSE 10 * DigitsToNat(SubSeq(d, 1, Len(d) - 1)) + DigitVal(d[Len(d)])

RECURSIVE NatToDigits(_)
NatToDigits(n) == IF n < 10 THEN <<DigitChr(n)>> ELSE NatToDigits(n \div 10) \o <<DigitChr(n % 10)>>

Zeros(n) == [i \in 1..n |-> "0"]

\* the float with sign neg and value d * 10^e, d a digit sequence
MkFloat(neg, d, e) ==
    LET lead == DropLeadingZeros(d)
        tz == TrailingZeros(lead)
    IN  IF lead = <<>> THEN [neg |-> neg, dig |-> <<>>, exp |-> 0]
        ELSE [neg |-> neg, dig |-> SubSeq(lead, 1, Len(lead) - tz), exp |-> e + tz]

ValueError == [ok |-> FALSE, neg |-> FALSE, dig |-> <<>>, exp |-> 0]

\* [+-]? digits* .? digits* ([eE] [+-]? digits*)? $
FloatPattern == <<It({"+", "-"}, 0, 1), It(Digit, 0, -1), It({"."}, 0, 1), It(Digit, 0, -1),
                  It({"e", "E"}, 0, 1), It({"+", "-"}, 0, 1), It(Digit, 0, -1), Eos>>

\* float(s) of a str: surrounding whitespace is ignored; a sign, decimal digits with
\* at most one point and at least one digit, an optional exponent.  (The literals
\* inf and nan and digit-group underscores are not modelled: no text of the model
\* spells them.)
FloatFields(t, m) ==
    [sign |-> Group(t, m, 0, 1), ip |-> Group(t, m, 0, 2), fp |-> Group(t, m, 0, 4),
     e |-> Group(t, m, 0, 5), es |-> Group(t, m, 0, 6), ed |-> Group(t, m, 0, 7)]

FloatOf(f) ==
    IF f.ip = <<>> /\ f.fp = <<>> THEN ValueError
    ELSE IF f.e = <<>> /\ (f.es # <<>> \/ f.ed # <<>>) THEN ValueError
    ELSE IF f.e # <<>> /\ f.ed = <<>> THEN ValueError
    ELSE [ok |-> TRUE]
         @@ MkFloat(f.sign = <<"-">>, f.ip \o f.fp,
                    (IF f.es = <<"-">> THEN -1 ELSE 1) * DigitsToNat(f.ed) - Len(f.fp))

FloatMatch(t, m) == IF m.ok THEN FloatOf(FloatFields(t, m)) ELSE ValueError

float(s) == FloatMatch(strip(s), re_match(FloatPattern, strip(s)))

IsZero(v) == v.dig = <<>>

\* v < 0
Negative(v) == v.neg /\ ~IsZero(v)

\* abs(v)
abs(v) == [neg |-> FALSE, dig |-> v.dig, exp |-> v.exp]

\* v * 10^k
Times10(v, k) == IF IsZero(v) THEN v ELSE [neg |-> v.neg, dig |-> v.dig, exp |-> v.exp + k]

\* the number of digits of the integer part of |v| (<= 0 when |v| < 1)
IntDigits(v) == Len(v.dig) + v.exp

\* v == int(v)
IsIntegral(v) == v.exp >= 0

\* floor(|v|), for |v| < 10^9
IntPart(v) ==
    IF IntDigits(v) <= 0 THEN 0
    ELSE IF v.exp >= 0 THEN DigitsToNat(v.dig \o Zeros(v.exp))
    ELSE DigitsToNat(SubSeq(v.dig, 1, IntDigits(v)))

\* the digits of |v| after the decimal point
FracDigits(v) ==
    IF v.exp >= 0 THEN <<>>
    ELSE IF IntDigits(v) <= 0 THEN Zeros(-IntDigits(v)) \o v.dig
    ELSE SubSeq(v.dig, IntDigits(v) + 1, Len(v.dig))

\* lo <= v <= hi for naturals lo <= hi < 10^9
Between(v, lo, hi) ==
    /\ ~Negative(v)
    /\ IntDigits(v) <= 9
    /\ IntPart(v) >= lo
    /\ \/ IntPart(v) < hi
       \/ IntPart(v) = hi /\ FracDigits(v) = <<>>

\* a <= b for floats that are not negative
FloatLeq(a, b) ==
    LET n == IF Len(a.dig) > Len(b.dig) THEN Len(a.dig) ELSE Len(b.dig)
        x == a.dig \o Zeros(n - Len(a.dig))
        y == b.dig \o Zeros(n - Len(b.dig))
        diff == {k \in 1..n : x[k] # y[k]}
    IN  IF IsZero(a) THEN TRUE
        ELSE IF IsZero(b) THEN FALSE
        ELSE IF IntDigits(a) # IntDigits(b) THEN IntDigits(a) < IntDigits(b)
        ELSE diff = {} \/ DigitVal(x[MinOf(diff)]) < DigitVal(y[MinOf(diff)])

\* repr(v), which str(v) gives too, where it is positional (1e-4 <= |v| < 1e16, or 0)
ReprPositional(v) == IsZero(v) \/ (IntDigits(v) >= -3 /\ IntDigits(v) <= 16)

repr(v) ==
    (IF v.neg THEN <<"-">> ELSE <<>>) \o
    (IF IsZero(v) THEN <<"0", ".", "0">>
     ELSE IF v.exp >= 0 THEN v.dig \o Zeros(v.exp) \o <<".", "0">>
     ELSE IF IntDigits(v) <= 0 THEN <<"0", ".">> \o FracDigits(v)
     ELSE SubSeq(v.dig, 1, IntDigits(v)) \o <<".">> \o FracDigits(v))

(***************************************************************************)
(* Python values held in result dicts                                      *)
(***************************************************************************)
None == [t |-> "None"]

Bool(b) == [t |-> "bool", b |-> b]

\* a str constant of the source
Str(s) == [t |-> "str", s |-> s]

\* a str built from a text of the call
Text(cs) == [t |-> "str", chars |-> cs]

\* an f-string: a constant followed by a text
Msg(s, cs) == [t |-> "str", s |-> s, chars |-> cs]

Float(v) == [t |-> "float", neg |-> v.neg, dig |-> v.dig, exp |-> v.exp]

PyInt(n) == [t |-> "int", n |-> n]

\* a datetime: a calendar date and the time of day, as hour and minute plus the
\* decimal digits of a fraction of the day
DateTime(y, m, d, hour, minute, frac) ==
    [t |-> "datetime", year |-> y, month |-> m, day |-> d,
     hour |-> hour, minute |-> minute, frac |-> frac]

\* an exception leaving a function
Raise(exc) == [raised |-> TRUE, exc |-> exc]

\* a dict a function returns
Return(d) == [raised |-> FALSE, value |-> d]

(***************************************************************************)
(* FormatParser: the tables of _init_                                    *)
(***************************************************************************)
\* in dict order
currency_symbols == <<[symbol |-> "$", code |-> "USD"], [symbol |-> "€", code |-> "EUR"],
                      [symbol |-> "₹", code |-> "INR"], [symbol |-> "£", code |-> "GBP"],
                      [symbol |-> "¥", code |-> "JPY"]>>

\* in dict order; the multiplier is 10^pow
abbreviation_multipliers == <<[abbrev |-> "K", pow |-> 3], [abbrev |-> "M", pow |-> 6],
                              [abbrev |-> "B", pow |-> 9], [abbrev |-> "T", pow |-> 12]>>

Multiplier(pow) == MkFloat(FALSE, <<"1">>, pow)

(***************************************************************************)
(* FormatParser: amounts                                                   *)
(***************************************************************************)
\* [\d,]+\.\d{3}
EuropeanPattern == <<It(Digit \cup {","}, 1, -1), It({"."}, 1, 1), It(Digit, 3, 3)>>

\* (\d+)\.(\d{3})
GroupingDotPattern == <<It(Digit, 1, -1), It({"."}, 1, 1), It(Digit, 3, 3)>>

\* (\d),(\d{3})
ThousandsPattern == <<It(Digit, 1, 1), It({","}, 1, 1), It(Digit, 3, 3)>>

normalize_currency(value) ==
    LET european == IF re_search(EuropeanPattern, value)
                    THEN replace(re_sub(GroupingDotPattern, {1, 3}, value), ",", <<".">>)
                    ELSE value
    IN  re_sub(ThousandsPattern, {1, 3}, european)

\* the suffix loop of handle_special_formats from entry k on: the dict of the first
\* suffix whose numeric part parses, or None
RECURSIVE AbbreviatedFrom(_, _)
\* the suffix test on the text as written, not on its upper case
AbbreviatedEntryAsWritten(value, k, a, base_value) ==
    IF endswith(value, <<a.abbrev>>) /\ base_value.ok
    THEN ("parsed_value" :> Float(Times10(base_value, a.pow))
          @@ "currency" :> None
          @@ "is_negative" :> Bool(FALSE)
          @@ "abbreviation" :> Str(a.abbrev)
          @@ "multiplier" :> Float(Multiplier(a.pow))
          @@ "base_value" :> Float(base_value))
    ELSE AbbreviatedFrom(value, k + 1)

\* a: the entry of the suffix table; base_value: float(numeric_part)
AbbreviatedEntry(value, k, a, base_value) ==
    IF endswith(upper(value), <<a.abbrev>>) /\ base_value.ok
    THEN ("parsed_value" :> Float(Times10(base_value, a.pow))
          @@ "currency" :> None
          @@ "is_negative" :> Bool(FALSE)
          @@ "abbreviation" :> Str(a.abbrev)
          @@ "multiplier" :> Float(Multiplier(a.pow))
          @@ "base_value" :> Float(base_value))
    ELSE AbbreviatedFrom(value, k + 1)

AbbreviatedFrom(value, k) ==
    IF k > Len(abbreviation_multipliers) THEN None
    ELSE AbbreviatedEntry(value, k, abbreviation_multipliers[k],
                          float(IF Len(value) > 1 THEN SubSeq(value, 1, Len(value) - 1)
                                ELSE value))

\* the dict of a negative notation with the float as parsed, no abs()
NegativeDictSigned(parsed_value, format) ==
    "parsed_value" :> Float(parsed_value)
    @@ "currency" :> None
    @@ "is_negative" :> Bool(TRUE)
    @@ "format" :> Str(format)

NegativeDict(parsed_value, format) ==
    "parsed_value" :> Float(abs(parsed_value))
    @@ "currency" :> None
    @@ "is_negative" :> Bool(TRUE)
    @@ "format" :> Str(format)

\* abbreviated: what the suffix loop gives; inner and base: the floats of the two
\* negative notations
SpecialFormats(value, abbreviated, inner, base) ==
    IF abbreviated # None THEN abbreviated
    ELSE IF startswith(value, <<"(">>) /\ endswith(value, <<")">>) /\ inner.ok
    THEN NegativeDict(inner, "parentheses_negative")
    ELSE IF endswith(value, <<"-">>) /\ base.ok
    THEN NegativeDict(base, "trailing_negative")
    ELSE ("parsed_value" :> None
          @@ "currency" :> None
          @@ "is_negative" :> Bool(FALSE)
          @@ "error" :> Msg("Unrecognized special format: ", value))

handle_special_formats(value) ==
    SpecialFormats(value, AbbreviatedFrom(value, 1),
                   float(normalize_currency(SubSeq(value, 2, Len(value) - 1))),
                   float(normalize_currency(SubSeq(value, 1, Len(value) - 1))))

_is_special_format(value) ==
    \/ \E k \in 1..Len(abbreviation_multipliers) :
          endswith(upper(value), <<abbreviation_multipliers[k].abbrev>>)
    \/ startswith(value, <<"(">>) /\ endswith(value, <<")">>)
    \/ endswith(value, <<"-">>)

\* re.sub(r'[\$€₹£¥]', '', s)
RECURSIVE StripCurrency(_)
StripCurrency(s) ==
    IF s = <<>> THEN <<>>
    ELSE (IF Head(s) \in CurrencyChar THEN <<>> ELSE <<Head(s)>>) \o StripCurrency(Tail(s))

\* the code of the first symbol of the table that the text holds, or None
CurrencyOf(normalized_value) ==
    LET present == {k \in 1..Len(currency_symbols) :
                       Contains(normalized_value, currency_symbols[k].symbol)}
    IN  IF present = {} THEN None ELSE Str(currency_symbols[MinOf(present)].code)

\* _parse_normalized_amount with no look at the currency table
NormalizedAmountNoCurrency(currency, clean_value, parsed_value) ==
    IF parsed_value.ok
    THEN ("parsed_value" :> Float(abs(parsed_value))
          @@ "currency" :> None
          @@ "is_negative" :> Bool(Negative(parsed_value))
          @@ "format" :> Str("standard"))
    ELSE ("parsed_value" :> None
          @@ "currency" :> None
          @@ "is_negative" :> Bool(FALSE)
          @@ "error" :> Msg("Invalid numeric format: ", clean_value))

\* _parse_normalized_amount with an except clause that reports the error beside a
\* zero amount
NormalizedAmountPartial(currency, clean_value, parsed_value) ==
    IF parsed_value.ok
    THEN ("parsed_value" :> Float(abs(parsed_value))
          @@ "currency" :> currency
          @@ "is_negative" :> Bool(Negative(parsed_value))
          @@ "format" :> Str("standard"))
    ELSE ("parsed_value" :> Float(MkFloat(FALSE, <<>>, 0))
          @@ "currency" :> currency
          @@ "is_negative" :> Bool(FALSE)
          @@ "error" :> Msg("Invalid numeric format: ", clean_value))

NormalizedAmount(currency, clean_value, parsed_value) ==
    IF parsed_value.ok
    THEN ("parsed_value" :> Float(abs(parsed_value))
          @@ "currency" :> currency
          @@ "is_negative" :> Bool(Negative(parsed_value))
          @@ "format" :> Str("standard"))
    ELSE ("parsed_value" :> None
          @@ "currency" :> None
          @@ "is_negative" :> Bool(FALSE)
          @@ "error" :> Msg("Invalid numeric format: ", clean_value))

_parse_normalized_amount(normalized_value) ==
    NormalizedAmount(CurrencyOf(normalized_value), StripCurrency(normalized_value),
                     float(StripCurrency(normalized_value)))

_handle_special_formats(value) == handle_special_formats(value)

\* the try block of parse_amount
AmountBody(str_value) ==
    IF _is_special_format(str_value)
    THEN Return(_handle_special_formats(str_value))
    ELSE Return(_parse_normalized_amount(normalize_currency(str_value)))

\* the except clause of parse_amount around what its try block did
AmountExcept(str_value, body) ==
    IF body.raised
    THEN Return("parsed_value" :> None
                @@ "currency" :> None
                @@ "is_negative" :> Bool(FALSE)
                @@ "error" :> Str("Parse error")
                @@ "original_value" :> Text(str_value))
    ELSE body

\* value: [null, text].  pd.isna(None) holds; a str is never NaN.
parse_amount(value) ==
    IF value.null \/ value.text = <<>>
    THEN Return("parsed_value" :> None
                @@ "currency" :> None
                @@ "is_negative" :> Bool(FALSE)
                @@ "error" :> Str("Empty value"))
    ELSE AmountExcept(strip(value.text), AmountBody(strip(value.text)))

(***************************************************************************)
(* Calendar                                                                *)
(***************************************************************************)
IsLeap(y) == (y % 4 = 0 /\ y % 100 # 0) \/ y % 400 = 0

\* calendar.monthrange(y, m)[1]
DaysInMonth(y, m) ==
    IF m = 2 THEN (IF IsLeap(y) THEN 29 ELSE 28)
    ELSE IF m \in {4, 6, 9, 11} THEN 30 ELSE 31

\* the arguments datetime(y, m, d) accepts; any other raises ValueError
ValidDate(y, m, d) ==
    /\ y >= 1 /\ y <= 9999
    /\ m >= 1 /\ m <= 12
    /\ d >= 1 /\ d <= DaysInMonth(y, m)

\* datetime(1900, 1, 1) + timedelta(days = n), n a natural: the proleptic Gregorian
\* date n days after 1900-01-01 (day 693901 counted from 0000-03-01)
DateAfter1900(n) ==
    LET z == n + 693901
        era == z \div 146097
        doe == z - era * 146097
        yoe == (doe - doe \div 1460 + doe \div 36524 - doe \div 146096) \div 365
        doy == doe - (365 * yoe + yoe \div 4 - yoe \div 100)
        mp == (5 * doy + 2) \div 153
        d == doy - (153 * mp + 2) \div 5 + 1
        m == IF mp < 10 THEN mp + 3 ELSE mp - 9
        y == yoe + era * 400 + (IF m <= 2 THEN 1 ELSE 0)
    IN  [year |-> y, month |-> m, day |-> d]

\* the dates the host's clock shows, in the order it passes them
Days == <<[year |-> 2024, month |-> 1, day |-> 15],
          [year |-> 2025, month |-> 8, day |-> 31]>>

(***************************************************************************)
(* Month names                                                             *)
(***************************************************************************)
MonthAbbrevs ==
  <<<<"j", "a", "n">>,
    <<"f", "e", "b">>,
    <<"m", "a", "r">>,
    <<"a", "p", "r">>,
    <<"m", "a", "y">>,
    <<"j", "u", "n">>,
    <<"j", "u", "l">>,
    <<"a", "u", "g">>,
    <<"s", "e", "p">>,
    <<"o", "c", "t">>,
    <<"n", "o", "v">>,
    <<"d", "e", "c">>>>

MonthNames ==
  <<<<"j", "a", "n", "u", "a", "r", "y">>,
    <<"f", "e", "b", "r", "u", "a", "r", "y">>,
    <<"m", "a", "r", "c", "h">>,
    <<"a", "p", "r", "i", "l">>,
    <<"m", "a", "y">>,
    <<"j", "u", "n", "e">>,
    <<"j", "u", "l", "y">>,
    <<"a", "u", "g", "u", "s", "t">>,
    <<"s", "e", "p", "t", "e", "m", "b", "e", "r">>,
    <<"o", "c", "t", "o", "b", "e", "r">>,
    <<"n", "o", "v", "e", "m", "b", "e", "r">>,
    <<"d", "e", "c", "e", "m", "b", "e", "r">>>>

\* dict.get(name.lower(), 1) on a table of twelve names
MonthLookup(names, word) ==
    LET hit == {k \in 1..12 : names[k] = lower(word)}
    IN  IF hit = {} THEN 1 ELSE MinOf(hit)

_month_abbrev_to_num(month_abbrev) == MonthLookup(MonthAbbrevs, month_abbrev)

_month_name_to_num(month_name) == MonthLookup(MonthNames, month_name)

(***************************************************************************)
(* dateutil.parser.parse(timestr), default arguments, as far as the texts  *)
(* of this model exercise it: number, word and separator tokens; no times  *)
(* of day, weekdays or time zones (DuModelled says which texts those are). *)
(***************************************************************************)
\* _timelex.split: runs of letters, runs of digits, and single other characters
RECURSIVE DuLex(_)
DuLex(s) ==
    IF s = <<>> THEN <<>>
    ELSE LET cls == IF Head(s) \in Letter THEN Letter
                    ELSE IF Head(s) \in Digit THEN Digit ELSE {}
             n == IF cls = {} THEN 1 ELSE RunLen(s, 0, cls, -1)
         IN  <<SubSeq(s, 1, n)>> \o DuLex(SubSeq(s, n + 1, Len(s)))

IsNumTok(tok) == tok # <<>> /\ \A k \in 1..Len(tok) : tok[k] \in Digit

\* parserinfo.month: 1..12, or 0 for None
DuMonth(tok) ==
    LET w == lower(tok)
        hit == {k \in 1..12 : MonthAbbrevs[k] = w \/ MonthNames[k] = w}
    IN  IF w = <<"s", "e", "p", "t">> THEN 9
        ELSE IF hit = {} THEN 0 ELSE MinOf(hit)

\* parserinfo.jump, the separator characters of JUMP
DuJump(tok) == tok \in {<<" ">>, <<".">>, <<",">>, <<";">>, <<"-">>, <<"/">>, <<"'">>}

\* the words parserinfo gives a meaning this model leaves out: weekdays, HMS, AMPM,
\* PERTAIN, UTCZONE and the words of JUMP
DuVocabulary == {
    <<"m", "o", "n">>, <<"m", "o", "n", "d", "a", "y">>, <<"t", "u", "e">>, <<"t", "u", "e", "s", "d", "a", "y">>,
    <<"w", "e", "d">>, <<"w", "e", "d", "n", "e", "s", "d", "a", "y">>, <<"t", "h", "u">>, <<"t", "h", "u", "r", "s", "d", "a", "y">>,
    <<"f", "r", "i">>, <<"f", "r", "i", "d", "a", "y">>, <<"s", "a", "t">>, <<"s", "a", "t", "u", "r", "d", "a", "y">>,
    <<"s", "u", "n">>, <<"s", "u", "n", "d", "a", "y">>, <<"h">>, <<"h", "o", "u", "r">>,
    <<"h", "o", "u", "r", "s">>, <<"m">>, <<"m", "i", "n", "u", "t", "e">>, <<"m", "i", "n", "u", "t", "e", "s">>,
    <<"s">>, <<"s", "e", "c", "o", "n", "d">>, <<"s", "e", "c", "o", "n", "d", "s">>, <<"a", "m">>,
    <<"a">>, <<"p", "m">>, <<"p">>, <<"o", "f">>,
    <<"u", "t", "c">>, <<"g", "m", "t">>, <<"z">>, <<"a", "t">>,
    <<"o", "n">>, <<"a", "n", "d">>, <<"a", "d">>, <<"t">>,
    <<"s", "t">>, <<"n", "d">>, <<"r", "d">>, <<"t", "h">>}

DuModelled(s) ==
    /\ \A k \in 1..Len(s) : s[k] \in Letter \cup Digit \cup {" ", "-", "/", "(", ")"}
    /\ \A k \in 1..Len(DuLex(s)) :
          /\ lower(DuLex(s)[k]) \notin DuVocabulary
          /\ IsNumTok(DuLex(s)[k]) => Len(DuLex(s)[k]) <= 6
    /\ Cardinality({k \in 1..Len(DuLex(s)) : IsNumTok(DuLex(s)[k])}) <= 3
    /\ (\E k \in 1..Len(DuLex(s)) : Len(DuLex(s)[k]) = 6) => Len(DuLex(s)) = 1

\* _ymd and the fields of _result that the loop sets: m and y are mstridx and
\* ystridx counted from 1 (0 for None), hour and minute are -1 for None
DuStart == [ymd |-> <<>>, m |-> 0, y |-> 0, cent |-> FALSE, hour |-> -1, minute |-> -1]

DuFail == [ok |-> FALSE, i |-> 0, st |-> DuStart]

DuOk(i, st) == [ok |-> TRUE, i |-> i, st |-> st]

\* _ymd.append(val, label): big says val is a str of more than two digits, or a
\* number over 100
DuAppend(a, n, big, label) ==
    LET lab == IF big THEN "Y" ELSE label
        st == a.st
    IN  IF ~a.ok THEN DuFail
        ELSE IF big /\ label \notin {"", "Y"} THEN DuFail
        ELSE IF lab = "M" /\ st.m # 0 THEN DuFail
        ELSE IF lab = "Y" /\ st.y # 0 THEN DuFail
        ELSE DuOk(a.i, [st EXCEPT !.ymd = Append(st.ymd, n),
                                  !.cent = st.cent \/ big,
                                  !.m = IF lab = "M" THEN Len(st.ymd) + 1 ELSE st.m,
                                  !.y = IF lab = "Y" THEN Len(st.ymd) + 1 ELSE st.y])

\* _ymd.append(tok) of a token: int(tok) raises ValueError unless it is digits
DuAppendTok(a, tok) ==
    IF IsNumTok(tok) THEN DuAppend(a, DigitsToNat(tok), Len(tok) > 2, "") ELSE DuFail

\* _ymd.append of the month a token names, else of the token itself
DuAppendMonthOrTok(a, tok) ==
    IF DuMonth(tok) # 0 THEN DuAppend(a, DuMonth(tok), FALSE, "M") ELSE DuAppendTok(a, tok)

\* _ymd.could_be_day
DuCouldBeDay(st, value) ==
    IF st.m = 0 THEN value >= 1 /\ value <= 31
    ELSE IF st.y = 0 THEN value >= 1 /\ value <= DaysInMonth(2000, st.ymd[st.m])
    ELSE value >= 1 /\ value <= DaysInMonth(st.ymd[st.y], st.ymd[st.m])

\* _parse_numeric_token at token i: the index it returns and the new state
DuNumeric(l, i, st) ==
    LET tok == l[i]
        value == DigitsToNat(tok)
        has(k) == i + k <= Len(l)
        start == DuOk(i, st)
    IN  IF Len(st.ymd) = 3 /\ Len(tok) \in {2, 4} /\ st.hour = -1
           /\ (~has(1) \/ l[i + 1] # <<":">>)
        THEN DuOk(i, [st EXCEPT !.hour = DigitsToNat(SubSeq(tok, 1, 2)),
                                !.minute = IF Len(tok) = 4 THEN DigitsToNat(SubSeq(tok, 3, 4))
                                           ELSE st.minute])
        ELSE IF Len(tok) = 6
        THEN (IF st.ymd = <<>>
              THEN DuAppendTok(DuAppendTok(DuAppendTok(start, SubSeq(tok, 1, 2)),
                                           SubSeq(tok, 3, 4)), SubSeq(tok, 5, 6))
              ELSE DuOk(i, [st EXCEPT !.hour = DigitsToNat(SubSeq(tok, 1, 2)),
                                      !.minute = DigitsToNat(SubSeq(tok, 3, 4))]))
        ELSE IF Len(tok) = 8
        THEN DuAppendTok(DuAppendTok(DuAppend(start, DigitsToNat(SubSeq(tok, 1, 4)), TRUE, "Y"),
                                     SubSeq(tok, 5, 6)), SubSeq(tok, 7, 8))
        ELSE IF has(1) /\ l[i + 1] \in {<<"-">>, <<"/">>, <<".">>}
        THEN LET a1 == DuAppendTok(start, tok)
                 a2 == IF IsNumTok(l[i + 2]) THEN DuAppendTok(a1, l[i + 2])
                       ELSE IF DuMonth(l[i + 2]) # 0 THEN DuAppend(a1, DuMonth(l[i + 2]), FALSE, "M")
                       ELSE DuFail
                 a3 == IF has(4) THEN DuAppendMonthOrTok(a2, l[i + 4]) ELSE DuFail
             IN  IF has(2) /\ ~DuJump(l[i + 2])
                 THEN (IF has(3) /\ l[i + 3] = l[i + 1]
                       THEN [a3 EXCEPT !.i = i + 4]
                       ELSE [a2 EXCEPT !.i = i + 2])
                 ELSE [a1 EXCEPT !.i = i + 1]
        ELSE IF ~has(1) \/ DuJump(l[i + 1])
        THEN [DuAppend(start, value, value > 100, "") EXCEPT !.i = i + 1]
        ELSE IF DuCouldBeDay(st, value)
        THEN DuAppend(start, value, value > 100, "")
        ELSE DuFail

RECURSIVE DuLoop(_, _, _)
\* the loop goes on behind the tokens a branch took, or parse fails with the branch
DuAfter(l, a) == IF a.ok THEN DuLoop(l, a.i + 1, a.st) ELSE DuFail

\* the month branch of the loop at token i, the month itself appended in m1
DuMonthToken(l, i, m1) ==
    LET has(k) == i + k <= Len(l)
        m2 == IF has(2) THEN DuAppendTok(m1, l[i + 2]) ELSE DuFail
        m3 == IF has(4) THEN DuAppendTok(m2, l[i + 4]) ELSE DuFail
    IN  IF has(1) /\ l[i + 1] \in {<<"-">>, <<"/">>}
        THEN (IF has(3) /\ l[i + 3] = l[i + 1]
              THEN [m3 EXCEPT !.i = i + 4]
              ELSE [m2 EXCEPT !.i = i + 2])
        ELSE m1

\* the token loop of _parse from token i on
DuLoop(l, i, st) ==
    IF i > Len(l) THEN DuOk(i, st)
    ELSE IF IsNumTok(l[i]) THEN DuAfter(l, DuNumeric(l, i, st))
    ELSE IF DuMonth(l[i]) # 0
    THEN DuAfter(l, DuMonthToken(l, i, DuAppend(DuOk(i, st), DuMonth(l[i]), FALSE, "M")))
    ELSE IF DuJump(l[i]) THEN DuLoop(l, i + 1, st)
    ELSE DuFail

\* _ymd.resolve_ymd(yearfirst = False, dayfirst = False): -1 for None
DuYmd(y, m, d) == [ok |-> TRUE, year |-> y, month |-> m, day |-> d]

DuResolve(st) ==
    LET v == st.ymd
        n == Len(v)
        strids == (IF st.m # 0 THEN 1 ELSE 0) + (IF st.y # 0 THEN 1 ELSE 0)
        missing == CHOOSE k \in 1..3 : k # st.m /\ k # st.y
        other == IF st.m = 1 THEN v[n] ELSE v[1]
    IN  IF (n = strids /\ n > 0) \/ (n = 3 /\ strids = 2)
        THEN DuYmd(IF st.y # 0 THEN v[st.y] ELSE -1,
                   IF st.m # 0 THEN v[st.m] ELSE -1,
                   IF n = 3 THEN v[missing] ELSE -1)
        ELSE IF n > 3 THEN [ok |-> FALSE, year |-> -1, month |-> -1, day |-> -1]
        ELSE IF n = 1 \/ (st.m # 0 /\ n = 2)
        THEN (IF n > 1 \/ st.m = 0
              THEN (IF other > 31 THEN DuYmd(other, IF st.m # 0 THEN v[st.m] ELSE -1, -1)
                    ELSE DuYmd(-1, IF st.m # 0 THEN v[st.m] ELSE -1, other))
              ELSE DuYmd(-1, v[st.m], -1))
        ELSE IF n = 2
        THEN (IF v[1] > 31 THEN DuYmd(v[1], v[2], -1)
              ELSE IF v[2] > 31 THEN DuYmd(v[2], v[1], -1)
              ELSE DuYmd(-1, v[1], v[2]))
        ELSE IF n = 3
        THEN (IF st.m = 1
              THEN (IF v[2] > 31 THEN DuYmd(v[2], v[1], v[3]) ELSE DuYmd(v[3], v[1], v[2]))
              ELSE IF st.m = 2
              THEN (IF v[1] > 31 THEN DuYmd(v[1], v[2], v[3]) ELSE DuYmd(v[3], v[2], v[1]))
              ELSE IF st.m = 3
              THEN (IF v[2] > 31 THEN DuYmd(v[2], v[3], v[1]) ELSE DuYmd(v[1], v[3], v[2]))
              ELSE IF v[1] > 31 \/ st.y = 1 THEN DuYmd(v[1], v[2], v[3])
              ELSE IF v[1] > 12 THEN DuYmd(v[3], v[2], v[1])
              ELSE DuYmd(v[3], v[1], v[2]))
        ELSE DuYmd(-1, -1, -1)

\* parserinfo.convertyear, the parserinfo made in the year now.year
DuConvertYear(year, cent, now) ==
    LET century == (now.year \div 100) * 100
        y == year + century
    IN  IF year < 100 /\ ~cent
        THEN (IF y >= now.year + 50 THEN y - 100
              ELSE IF y < now.year - 50 THEN y + 100 ELSE y)
        ELSE year

DuError == [ok |-> FALSE, year |-> 0, month |-> 0, day |-> 0, hour |-> 0, minute |-> 0]

\* the datetime of the resolved fields ymd and the loop's state st: the fields the
\* text leaves out come from the default, the date now at midnight
DuBuild(st, ymd, now) ==
    LET year == IF ymd.year = -1 THEN now.year ELSE DuConvertYear(ymd.year, st.cent, now)
        month == IF ymd.month = -1 THEN now.month ELSE ymd.month
        last == DaysInMonth(year, month)
        day == IF ymd.day # -1 THEN ymd.day
               ELSE IF now.day > last THEN last ELSE now.day
        hour == IF st.hour = -1 THEN 0 ELSE st.hour
        minute == IF st.minute = -1 THEN 0 ELSE st.minute
    IN  IF ~ymd.ok THEN DuError
        ELSE IF ymd.year = -1 /\ ymd.month = -1 /\ ymd.day = -1 /\ st.hour = -1 THEN DuError
        ELSE IF ~ValidDate(year, month, day) \/ hour > 23 \/ minute > 59 THEN DuError
        ELSE [ok |-> TRUE, year |-> year, month |-> month, day |-> day,
              hour |-> hour, minute |-> minute]

\* r: what the token loop gives
DuFinish(r, now) == IF r.ok THEN DuBuild(r.st, DuResolve(r.st), now) ELSE DuError

\* parse(timestr) when the clock shows the date now; ok is FALSE where parse raises
dateutil_parse(timestr, now) == DuFinish(DuLoop(DuLex(timestr), 1, DuStart), now)

(***************************************************************************)
(* FormatParser: dates                                                     *)
(***************************************************************************)
\* self.date_patterns, in dict order; re.IGNORECASE is spelled out in the classes.
\* groups: the items that are the pattern's groups
date_patterns ==
  <<[name |-> "MM/DD/YYYY", groups |-> <<1, 3, 5>>,
     pat |-> <<It(Digit, 1, 2), It({"/"}, 1, 1), It(Digit, 1, 2), It({"/"}, 1, 1), It(Digit, 4, 4)>>],
    [name |-> "DD/MM/YYYY", groups |-> <<1, 3, 5>>,
     pat |-> <<It(Digit, 1, 2), It({"/"}, 1, 1), It(Digit, 1, 2), It({"/"}, 1, 1), It(Digit, 4, 4)>>],
    [name |-> "YYYY-MM-DD", groups |-> <<1, 3, 5>>,
     pat |-> <<It(Digit, 4, 4), It({"-"}, 1, 1), It(Digit, 1, 2), It({"-"}, 1, 1), It(Digit, 1, 2)>>],
    [name |-> "DD-MON-YYYY", groups |-> <<1, 3, 5>>,
     pat |-> <<It(Digit, 1, 2), It({"-"}, 1, 1), It(WordChar, 3, 3), It({"-"}, 1, 1), It(Digit, 4, 4)>>],
    [name |-> "Quarter", groups |-> <<2, 4>>,
     pat |-> <<It({"Q", "q"}, 1, 1), It({"1", "2", "3", "4"}, 1, 1), It(Space, 1, -1), It(Digit, 4, 4)>>],
    [name |-> "Month-Year", groups |-> <<1, 3>>,
     pat |-> <<It(WordChar, 1, -1), It(Space, 1, -1), It(Digit, 4, 4)>>]>>

\* Q([1-4])-(\d{2})
QuarterShortPattern == <<It({"Q", "q"}, 1, 1), It({"1", "2", "3", "4"}, 1, 1), It({"-"}, 1, 1), It(Digit, 2, 2)>>

\* match.groups()
Groups(s, m, items) == [k \in 1..Len(items) |-> Group(s, m, 0, items[k])]

DateDict(d, format) ==
    "parsed_value" :> DateTime(d.year, d.month, d.day, 0, 0, <<>>)
    @@ "format" :> Str(format)
    @@ "year" :> PyInt(d.year)
    @@ "month" :> PyInt(d.month)
    @@ "day" :> PyInt(d.day)

\* the dict of an except branch that keeps the text
DateParseError(format, text) ==
    "parsed_value" :> None
    @@ "format" :> Str(format)
    @@ "error" :> Str("Parse error")
    @@ "original_value" :> Text(text)

\* the serial test with a range ten times as wide
_is_excel_serial_date_wide(value) == float(value).ok /\ Between(float(value), 1, 1000000)

_is_excel_serial_date(value) == float(value).ok /\ Between(float(value), 1, 100000)

\* the whole days of serial_date with the leap-day adjustment left out
SerialWholeUnadjusted(v) == IntPart(v)

\* serial_date after the leap-day adjustment, its whole days
SerialWhole(v) ==
    IF IntPart(v) > 59 \/ (IntPart(v) = 59 /\ FracDigits(v) # <<>>)
    THEN IntPart(v) - 1
    ELSE IntPart(v)

\* d: the calendar date of parsed_date
SerialDict(d, whole, frac) ==
    "parsed_value" :> DateTime(d.year, d.month, d.day, 0, 0, frac)
    @@ "format" :> Str("excel_serial")
    @@ "serial_date" :> Float(MkFloat(FALSE, NatToDigits(whole) \o frac, -Len(frac)))
    @@ "year" :> PyInt(d.year)
    @@ "month" :> PyInt(d.month)
    @@ "day" :> PyInt(d.day)

SerialDate(whole, frac) == SerialDict(DateAfter1900(whole - 1), whole, frac)

_parse_excel_serial_date(value) == SerialDate(SerialWhole(float(value)), FracDigits(float(value)))

\* _parse_date_pattern with a datetime that takes any month and day
_parse_date_pattern_unvalidated(pattern_name, g, original_value) ==
    LET n(k) == DigitsToNat(g[k])
        d == CASE pattern_name = "MM/DD/YYYY" -> [year |-> n(3), month |-> n(1), day |-> n(2)]
               [] pattern_name = "DD/MM/YYYY" -> [year |-> n(3), month |-> n(2), day |-> n(1)]
               [] pattern_name = "YYYY-MM-DD" -> [year |-> n(1), month |-> n(2), day |-> n(3)]
               [] pattern_name = "DD-MON-YYYY" ->
                      [year |-> n(3), month |-> _month_abbrev_to_num(g[2]), day |-> n(1)]
    IN  IF pattern_name \notin {"MM/DD/YYYY", "DD/MM/YYYY", "YYYY-MM-DD", "DD-MON-YYYY"}
        THEN ("parsed_value" :> None
              @@ "format" :> Str(pattern_name)
              @@ "error" :> Str("Unsupported pattern"))
        ELSE DateDict(d, pattern_name)

\* g: match.groups()
_parse_date_pattern(pattern_name, g, original_value) ==
    LET n(k) == DigitsToNat(g[k])
        d == CASE pattern_name = "MM/DD/YYYY" -> [year |-> n(3), month |-> n(1), day |-> n(2)]
               [] pattern_name = "DD/MM/YYYY" -> [year |-> n(3), month |-> n(2), day |-> n(1)]
               [] pattern_name = "YYYY-MM-DD" -> [year |-> n(1), month |-> n(2), day |-> n(3)]
               [] pattern_name = "DD-MON-YYYY" ->
                      [year |-> n(3), month |-> _month_abbrev_to_num(g[2]), day |-> n(1)]
    IN  IF pattern_name \notin {"MM/DD/YYYY", "DD/MM/YYYY", "YYYY-MM-DD", "DD-MON-YYYY"}
        THEN ("parsed_value" :> None
              @@ "format" :> Str(pattern_name)
              @@ "error" :> Str("Unsupported pattern"))
        ELSE IF ValidDate(d.year, d.month, d.day) THEN DateDict(d, pattern_name)
        ELSE DateParseError(pattern_name, original_value)

QuarterDict(format, quarter, year) ==
    "parsed_value" :> DateTime(year, (quarter - 1) * 3 + 1, 1, 0, 0, <<>>)
    @@ "format" :> Str(format)
    @@ "quarter" :> PyInt(quarter)
    @@ "year" :> PyInt(year)
    @@ "month" :> PyInt((quarter - 1) * 3 + 1)
    @@ "day" :> PyInt(1)

\* long, short: the matches of the two patterns
QuarterMatch(value, long, short) ==
    LET lq == DigitsToNat(Group(value, long, 0, 2))
        ly == DigitsToNat(Group(value, long, 0, 4))
        sq == DigitsToNat(Group(value, short, 0, 2))
        sy == 2000 + DigitsToNat(Group(value, short, 0, 4))
    IN  IF long.ok
        THEN (IF ValidDate(ly, (lq - 1) * 3 + 1, 1) THEN QuarterDict("quarter", lq, ly)
              ELSE DateParseError("quarter", value))
        ELSE IF short.ok THEN QuarterDict("quarter_short", sq, sy)
        ELSE ("parsed_value" :> None
              @@ "format" :> Str("quarter")
              @@ "error" :> Msg("Invalid quarter format: ", value))

_parse_quarter_format(value) ==
    QuarterMatch(value, re_match(date_patterns[5].pat, value), re_match(QuarterShortPattern, value))

\* parts: value.split()
MonthYear(value, parts) ==
    LET month_num == _month_name_to_num(parts[1])
        year == DigitsToNat(parts[2])
    IN  IF Len(parts) < 2
        THEN ("parsed_value" :> None
              @@ "format" :> Str("month_year")
              @@ "error" :> Msg("Invalid month-year format: ", value))
        ELSE IF IsNumTok(parts[2]) /\ ValidDate(year, month_num, 1)
        THEN ("parsed_value" :> DateTime(year, month_num, 1, 0, 0, <<>>)
              @@ "format" :> Str("month_year")
              @@ "month_name" :> Text(parts[1])
              @@ "month" :> PyInt(month_num)
              @@ "year" :> PyInt(year)
              @@ "day" :> PyInt(1))
        ELSE DateParseError("month_year", value)

_parse_month_year_format(value) == MonthYear(value, split(value))

\* the index of the first entry of date_patterns that matches, or 0
FirstPattern(str_value) ==
    LET hits == {k \in 1..Len(date_patterns) : re_match(date_patterns[k].pat, str_value).ok}
    IN  IF hits = {} THEN 0 ELSE MinOf(hits)

\* _parse_date_pattern called on the match of the entry p
PatternCall(p, str_value) ==
    _parse_date_pattern(p.name, Groups(str_value, re_match(p.pat, str_value), p.groups), str_value)

\* parse_date after dateutil raised; k is FirstPattern
DateFallback(str_value, k) ==
    IF k # 0 THEN Return(PatternCall(date_patterns[k], str_value))
    ELSE IF Contains(upper(str_value), "Q") THEN Return(_parse_quarter_format(str_value))
    ELSE IF re_match(date_patterns[6].pat, str_value).ok
    THEN Return(_parse_month_year_format(str_value))
    ELSE Return("parsed_value" :> None
                @@ "format" :> None
                @@ "error" :> Msg("Unrecognized date format: ", str_value)
                @@ "original_value" :> Text(str_value))

\* du: what dateutil.parser.parse(str_value) gives
DateTry(str_value, du) ==
    IF _is_excel_serial_date(str_value) THEN Return(_parse_excel_serial_date(str_value))
    ELSE IF du.ok
    THEN Return("parsed_value" :> DateTime(du.year, du.month, du.day, du.hour, du.minute, <<>>)
                @@ "format" :> Str("dateutil_parsed")
                @@ "year" :> PyInt(du.year)
                @@ "month" :> PyInt(du.month)
                @@ "day" :> PyInt(du.day))
    ELSE DateFallback(str_value, FirstPattern(str_value))

\* the try block of parse_date, when the clock shows the date now
DateBody(str_value, now) == DateTry(str_value, dateutil_parse(str_value, now))

\* the except clause of parse_date around what its try block did
DateExcept(str_value, body) ==
    IF body.raised
    THEN Return("parsed_value" :> None
                @@ "format" :> None
                @@ "error" :> Str("Parse error")
                @@ "original_value" :> Text(str_value))
    ELSE body

\* parse_date with neither exception handler: what dateutil raises leaves it
parse_date_unguarded(value, now) ==
    IF value.null \/ value.text = <<>>
    THEN Return("parsed_value" :> None @@ "format" :> None @@ "error" :> Str("Empty value"))
    ELSE IF ~_is_excel_serial_date(strip(value.text))
            /\ ~dateutil_parse(strip(value.text), now).ok
    THEN Raise("ParserError")
    ELSE DateBody(strip(value.text), now)

\* value: [null, text]; now: the date the clock shows
parse_date(value, now) ==
    IF value.null \/ value.text = <<>>
    THEN Return("parsed_value" :> None @@ "format" :> None @@ "error" :> Str("Empty value"))
    ELSE DateExcept(strip(value.text), DateBody(strip(value.text), now))

(***************************************************************************)
(* DataTypeDetector                                                        *)
(***************************************************************************)
\* self.date_patterns of the detector, in list order (re.IGNORECASE spelled out)
detector_date_patterns ==
  <<<<It(Digit, 1, 2), It({"/"}, 1, 1), It(Digit, 1, 2), It({"/"}, 1, 1), It(Digit, 2, 4)>>,
    <<It(Digit, 4, 4), It({"-"}, 1, 1), It(Digit, 1, 2), It({"-"}, 1, 1), It(Digit, 1, 2)>>,
    <<It(Digit, 1, 2), It({"-"}, 1, 1), It(WordChar, 3, 3), It({"-"}, 1, 1), It(Digit, 2, 4)>>,
    <<It({"Q", "q"}, 1, 1), It({"1", "2", "3", "4"}, 1, 1), It(Space, 1, -1), It(Digit, 4, 4)>>,
    <<It({"Q", "q"}, 1, 1), It({"1", "2", "3", "4"}, 1, 1), It({"-"}, 1, 1), It(Digit, 2, 2)>>,
    <<It(WordChar, 3, 3), It(Space, 1, -1), It(Digit, 4, 4)>>,
    <<It(WordChar, 1, -1), It(Space, 1, -1), It(Digit, 4, 4)>>>>

\* ^[\d.]+[KMB]$ with re.IGNORECASE
AbbreviatedPattern ==
    <<It(Digit \cup {"."}, 1, -1), It({"K", "M", "B", "k", "m", "b"}, 1, 1), Eos>>

MatchesDatePattern(value_str) ==
    \E k \in 1..Len(detector_date_patterns) : re_match(detector_date_patterns[k], value_str).ok

\* the serial test with no range: every whole number
SerialLikeAnyWhole(float_val) == float_val.ok /\ IsIntegral(float_val)

\* is a float in the range the detector takes for an Excel serial date
SerialLike(float_val) ==
    float_val.ok /\ IsIntegral(float_val) /\ Between(float_val, 1000, 73050)

\* the body of the loop of _detect_date_format: is the value counted
CountsAsDate(value) == SerialLike(float(strip(value))) \/ MatchesDatePattern(strip(value))

\* re.sub(r'[\$€₹£¥,()]', '', s).replace('-', '')
RECURSIVE CleanNumber(_)
CleanNumber(s) ==
    IF s = <<>> THEN <<>>
    ELSE (IF Head(s) \in CurrencyChar \cup {",", "(", ")", "-"} THEN <<>> ELSE <<Head(s)>>)
         \o CleanNumber(Tail(s))

\* the body of the loop of _detect_number_format: is the value counted
CountsAsNumber(value) ==
    /\ ~MatchesDatePattern(strip(value))
    /\ \/ float(CleanNumber(strip(value))).ok
       \/ re_match(AbbreviatedPattern, strip(value)).ok

\* the numerator of the score _detect_date_format returns; len(str_data) is the
\* denominator
_detect_date_format(str_data) == Cardinality({k \in 1..Len(str_data) : CountsAsDate(str_data[k])})

_detect_number_format(str_data) == Cardinality({k \in 1..Len(str_data) : CountsAsNumber(str_data[k])})

\* data.astype(str) alone: a null cell stays, as the text nan
RECURSIVE keepna(_)
keepna(data) ==
    IF data = <<>> THEN <<>>
    ELSE <<IF Head(data).null THEN <<"n", "a", "n">> ELSE Head(data).text>> \o keepna(Tail(data))

\* data.dropna().astype(str): the texts of the cells that are not null
RECURSIVE dropna(_)
dropna(data) ==
    IF data = <<>> THEN <<>>
    ELSE (IF Head(data).null THEN <<>> ELSE <<Head(data).text>>) \o dropna(Tail(data))

Score(n) == Float(MkFloat(FALSE, <<DigitChr(n)>>, 0))

ScoreDict(string, number, date) ==
    "string" :> Score(string) @@ "number" :> Score(number) @@ "date" :> Score(date)

\* max(scores, key = scores.get): the first key, in dict order, of the largest score
BestType(scores) ==
    LET order == <<"string", "number", "date">>
        top(k) == \A j \in 1..3 : FloatLeq(scores[order[j]], scores[order[k]])
    IN  order[MinOf({k \in 1..3 : top(k)})]

\* the decision with the number test before the date test
ScoresNumberFirst(total, date_count, number_count) ==
    IF 2 * number_count > total THEN ScoreDict(0, 1, 0)
    ELSE IF 2 * date_count > total THEN ScoreDict(0, 0, 1)
    ELSE ScoreDict(1, 0, 0)

\* the decision with no default to string
ScoresNoDefault(total, date_count, number_count) ==
    IF 2 * date_count > total THEN ScoreDict(0, 0, 1)
    ELSE IF 2 * number_count > total THEN ScoreDict(0, 1, 0)
    ELSE ScoreDict(0, 0, 0)

\* the three scores after the decision, from the counts behind date_score and
\* number_score: a score over 0.5 is a count over half of total
Scores(total, date_count, number_count) ==
    IF 2 * date_count > total THEN ScoreDict(0, 0, 1)
    ELSE IF 2 * number_count > total THEN ScoreDict(0, 1, 0)
    ELSE ScoreDict(1, 0, 0)

\* the dict analyze_column returns, but for format_info, the descriptive part that
\* _get_format_info adds
ColumnDict(scores, best_type) ==
    Return("type" :> Str(best_type)
           @@ "confidence" :> scores[best_type]
           @@ "scores" :> scores)

Classify(scores) == ColumnDict(scores, BestType(scores))

\* analyze_column with no test for the empty sample
analyze_column_unchecked(data) ==
    Classify(Scores(Len(dropna(data)), _detect_date_format(dropna(data)),
                    _detect_number_format(dropna(data))))

analyze_column(data) ==
    IF Len(dropna(data)) = 0
    THEN Return("type" :> Str("unknown")
                @@ "confidence" :> Score(0)
                @@ "scores" :> ScoreDict(0, 0, 0))
    ELSE Classify(Scores(Len(dropna(data)), _detect_date_format(dropna(data)),
                         _detect_number_format(dropna(data))))

(***************************************************************************)
(* ExcelProcessor                                                          *)
(***************************************************************************)
\* the files of the host: a workbook has sheets, another file has none, a path may
\* name no file
Workbook(sheets) == [exists |-> TRUE, workbook |-> TRUE, sheets |-> sheets]

OtherFile == [exists |-> TRUE, workbook |-> FALSE, sheets |-> <<>>]

NoFile == [exists |-> FALSE, workbook |-> FALSE, sheets |-> <<>>]

Disk ==
    "a.xlsx" :> Workbook(<<"Sheet1", "Sheet2">>)
    @@ "b.xlsx" :> Workbook(<<"Data">>)
    @@ "c.txt" :> OtherFile
    @@ "d.xlsx" :> NoFile

\* a dict with no key
EmptyDict == [k \in {} |-> None]

\* the state __init__ leaves, no call made yet
NoOutcome == [op |-> "none", file_path |-> "", sheet_name |-> "", exc |-> "", value |-> None]

ProcessorInit ==
    /\ loaded_files = EmptyDict
    /\ file_info = EmptyDict
    /\ outcome = NoOutcome

\* a method returned value
Returned(value) == [exc |-> "", value |-> value]

\* a method raised exc
Raised(exc) == [exc |-> exc, value |-> None]

\* the file_info dict load_files builds (the two open handles left out)
FileInfo(file_path) ==
    [file_path |-> file_path,
     sheets |-> Disk[file_path].sheets,
     sheet_count |-> Len(Disk[file_path].sheets)]

\* the loop of load_files from entry k on; loaded: loaded_files so far.  Gives the
\* dict the loop leaves and the exception that ended it, if one did
RECURSIVE LoadFrom(_, _, _)
LoadFrom(file_paths, k, loaded) ==
    IF k > Len(file_paths) THEN [loaded |-> loaded, exc |-> ""]
    ELSE IF ~Disk[file_paths[k]].exists THEN [loaded |-> loaded, exc |-> "FileNotFoundError"]
    ELSE IF ~Disk[file_paths[k]].workbook THEN [loaded |-> loaded, exc |-> "Exception"]
    ELSE LoadFrom(file_paths, k + 1, (file_paths[k] :> FileInfo(file_paths[k])) @@ loaded)

\* get_sheet_info with no test that the file is loaded: the dict lookup raises
get_sheet_info_unchecked(loaded, file_path) ==
    IF file_path \notin DOMAIN loaded THEN Raised("KeyError")
    ELSE Returned([sheets |-> loaded[file_path].sheets])

\* the keys of the dict returned are the sheets of the file
get_sheet_info(loaded, file_path) ==
    IF file_path \notin DOMAIN loaded THEN Raised("ValueError")
    ELSE Returned([sheets |-> loaded[file_path].sheets])

\* the sheet a call names, the first one when it names none
SheetOrFirst(info, sheet_name) == IF sheet_name = "" THEN info.sheets[1] ELSE sheet_name

InSheets(info, sheet_name) == \E k \in 1..Len(info.sheets) : info.sheets[k] = sheet_name

\* sheet_name "" stands for None; the value is the sheet the frame is read from
extract_data(loaded, file_path, sheet_name) ==
    IF file_path \notin DOMAIN loaded THEN Raised("ValueError")
    ELSE IF ~InSheets(loaded[file_path], SheetOrFirst(loaded[file_path], sheet_name))
    THEN Raised("ValueError")
    ELSE Returned([sheet |-> SheetOrFirst(loaded[file_path], sheet_name)])

\* pd.read_excel raises for a sheet the workbook has not, and the except clause
\* raises Exception in its place
preview_data(loaded, file_path, sheet_name) ==
    IF file_path \notin DOMAIN loaded THEN Raised("ValueError")
    ELSE IF ~InSheets(loaded[file_path], SheetOrFirst(loaded[file_path], sheet_name))
    THEN Raised("Exception")
    ELSE Returned([sheet |-> SheetOrFirst(loaded[file_path], sheet_name)])

get_all_sheets_data(loaded, file_path) ==
    IF file_path \notin DOMAIN loaded THEN Raised("ValueError")
    ELSE Returned([sheets |-> loaded[file_path].sheets])

(***************************************************************************)
(* The arguments the model passes                                          *)
(***************************************************************************)
MaxSeps == 2

MaxSample == 3

DigitGroups == {<<"2">>, <<"2", "3", "4">>}

Separators == {<<",">>, <<".">>}

AmountPrefixes == {<<>>, <<"-">>, <<"$">>, <<"(">>}

AmountSuffixes == {<<>>, <<"K">>, <<"m">>, <<"T">>, <<"-">>, <<")">>}

\* digit groups joined by at most n separators
RECURSIVE AmountBodies(_)
AmountBodies(n) ==
    IF n = 0 THEN DigitGroups
    ELSE AmountBodies(n - 1) \cup
         {b \o sep \o g : b \in AmountBodies(n - 1), sep \in Separators, g \in DigitGroups}

OtherTexts == {
    <<>>, <<" ">>, <<" ", " ">>, <<"K">>, <<"-">>,
    <<"(", ")">>, <<"f", "o", "o">>, <<" ", "2", " ">>, <<"2", " ", "K">>,
    <<".", "2", "3", "4">>, <<"€", "2", "3", "4">>, <<"-", ".", "2", "K">>,
    <<"1", ".", "5", "M">>, <<"(", "2", ",", "5", "0", "0", ".", "0", "0", ")">>,
    <<"$", "1", ",", "2", "3", "4", ".", "5", "6">>,
    <<"1", ",", "0", "0", "0", ",", "0", "0", "0">>, <<"2", "3", "4", "¥">>,
    <<"2", "2", "3", "4">>, <<"2", ".", "2", "3", "4", "5">>,
    <<"2", "2", "3", "4", ".", "2", "3", "4">>,
    <<"€", "1", ".", "2", "3", "4", ",", "5", "6">>,
    <<"1", ".", "2", "3", "4", ".", "5", "6", "7", ",", "8", "9">>,
    <<"1", ".", "2", "3", "4", "5">>,
    <<"0", ".", "0", "0", "0", "0", "0", "0", "0", "0", "0", "0", "0", "0", "1">>}

AmountTexts ==
    OtherTexts \cup
    {p \o b \o x : p \in AmountPrefixes, b \in AmountBodies(MaxSeps), x \in AmountSuffixes}

DateFields == {
    <<"Q", "4">>, <<"Q", "5">>, <<"1", "2">>, <<"3", "1">>, <<"2", "4">>,
    <<"2", "0", "2", "3">>, <<"D", "e", "c">>, <<"M", "a", "r", "c", "h">>, <<"f", "o", "o">>}

DateSeps == {<<" ">>, <<"-">>, <<"/">>}

SerialTexts == {
    <<"0">>, <<"1">>, <<"5", "9">>, <<"6", "0">>, <<"6", "1">>,
    <<"5", "9", ".", "5">>, <<"9", "9", "9">>, <<"1", "0", "0", "0">>, <<"4", "4", "9", "2", "7">>, <<"7", "3", "0", "5", "0">>,
    <<"7", "3", "0", "5", "1">>, <<"1", "0", "0", "0", "0", "0">>, <<"1", "0", "0", "0", "0", "1">>}

\* one, two or three fields, one separator throughout
DateTexts ==
    OtherTexts \cup SerialTexts \cup DateFields \cup
    {a \o x \o b : a \in DateFields, x \in DateSeps, b \in DateFields} \cup
    {a \o x \o b \o x \o c : a \in DateFields, x \in DateSeps, b \in DateFields,
                             c \in DateFields}

NullCell == [null |-> TRUE, text |-> <<>>]

Cell(text) == [null |-> FALSE, text |-> text]

CellTexts == <<
    <<"t", "e", "x", "t">>, <<"1", "2", "3">>, <<"1", "0", ".", "5">>,
    <<"4", "5", "0", "0", "0">>, <<"2", "0", "2", "3", "-", "0", "1", "-", "0", "1">>, <<"Q", "4", " ", "2", "0", "2", "3">>,
    <<"1", ".", "5", "T">> >>

Cells == {NullCell} \cup {Cell(CellTexts[k]) : k \in 1..Len(CellTexts)}

\* the place of a cell in CellTexts, 0 for the null cell
CellRank(c) == IF c.null THEN 0 ELSE CHOOSE k \in 1..Len(CellTexts) : CellTexts[k] = c.text

\* the sequences of at most n cells
RECURSIVE Samples(_)
Samples(n) ==
    IF n = 0 THEN {<<>>}
    ELSE Samples(n - 1) \cup {Append(col, c) : col \in Samples(n - 1), c \in Cells}

\* the columns of at most n cells: every pair of cells in both orders, a longer
\* column in the order of CellTexts
Columns(n) ==
    {col \in Samples(n) :
        Len(col) <= 2 \/ \A k \in 2..Len(col) : CellRank(col[k - 1]) <= CellRank(col[k])}

\* op: the operation the argument is for; of: the value the text renders, None
\* for a text that renders none
Inputs ==
    {[op |-> "parse_amount", null |-> FALSE, text |-> x, cells |-> <<>>, of |-> None] :
        x \in AmountTexts}
    \cup {[op |-> "parse_date", null |-> FALSE, text |-> x, cells |-> <<>>, of |-> None] :
             x \in DateTexts}
    \cup {[op |-> o, null |-> TRUE, text |-> <<>>, cells |-> <<>>, of |-> None] :
             o \in {"parse_amount", "parse_date"}}
    \cup {[op |-> "analyze_column", null |-> FALSE, text |-> <<>>, cells |-> col, of |-> None] :
             col \in Columns(MaxSample)}

\* n as text, at least w digits wide
ZeroPad(n, w) == Zeros(w - Len(NatToDigits(n))) \o NatToDigits(n)

\* date.isoformat(): YYYY-MM-DD
isoformat(d) == ZeroPad(d.year, 4) \o <<"-">> \o ZeroPad(d.month, 2) \o <<"-">> \o ZeroPad(d.day, 2)

\* the canonical text of a parsed value: repr of a float, the ISO date of a datetime
Rendering(v) == IF v.t = "float" THEN repr(v) ELSE isoformat(v)

(***************************************************************************)
(* The state machine: a caller holding one argument calls the operation it *)
(* is for, any number of times, while the clock advances; it may go on     *)
(* with the canonical text of the value a call gave                        *)
(***************************************************************************)
NoCall == [raised |-> FALSE, value |-> None]

Init ==
    /\ input \in Inputs
    /\ today \in 1..Len(Days)
    /\ result = NoCall
    /\ prev = NoCall
    /\ ProcessorInit

ParseAmount ==
    /\ input.op = "parse_amount"
    /\ result' = parse_amount(input)
    /\ prev' = result
    /\ UNCHANGED <<input, today>>
    /\ UNCHANGED processor

ParseDate ==
    /\ input.op = "parse_date"
    /\ result' = parse_date(input, Days[today])
    /\ prev' = result
    /\ UNCHANGED <<input, today>>
    /\ UNCHANGED processor

AnalyzeColumn ==
    /\ input.op = "analyze_column"
    /\ result' = analyze_column(input.cells)
    /\ prev' = result
    /\ UNCHANGED <<input, today>>
    /\ UNCHANGED processor

\* the caller replaces its argument by the canonical text of the value parsed
Reparse ==
    /\ input.op \in {"parse_amount", "parse_date"}
    /\ result # NoCall
    /\ ~result.raised
    /\ result.value["parsed_value"] # None
    /\ result.value["parsed_value"].t = "float" => ReprPositional(result.value["parsed_value"])
    /\ input' = [input EXCEPT !.text = Rendering(result.value["parsed_value"]),
                              !.of = result.value["parsed_value"]]
    /\ result' = NoCall
    /\ prev' = NoCall
    /\ UNCHANGED today
    /\ UNCHANGED processor

\* midnight passes
Tick ==
    /\ today < Len(Days)
    /\ today' = today + 1
    /\ UNCHANGED <<input, result, prev>>
    /\ UNCHANGED processor

Next == ParseAmount \/ ParseDate \/ AnalyzeColumn \/ Reparse \/ Tick

Spec == Init /\ [][Next]_vars

(***************************************************************************)
(* The state machine of the ExcelProcessor: a caller calls its methods in  *)
(* any order, on any path and sheet name                                   *)
(***************************************************************************)
MaxPaths == 2

Paths == DOMAIN Disk

\* "": no sheet name passed
SheetNames == {"", "Sheet1", "Sheet2", "Data", "InvalidSheet"}

\* the lists of at most n paths
RECURSIVE PathLists(_)
PathLists(n) ==
    IF n = 0 THEN {<<>>}
    ELSE PathLists(n - 1) \cup {Append(l, f) : l \in PathLists(n - 1), f \in Paths}

\* what a caller sees of a call
Outcome(op, file_path, sheet_name, r) ==
    [op |-> op, file_path |-> file_path, sheet_name |-> sheet_name, exc |-> r.exc, value |-> r.value]

\* the parser has no caller
Idle == [op |-> "none", null |-> TRUE, text |-> <<>>, cells |-> <<>>, of |-> None]

ExcelInit ==
    /\ input = Idle
    /\ today = 1
    /\ result = NoCall
    /\ prev = NoCall
    /\ ProcessorInit

\* r: what the loop did.  Both dicts hold the files it loaded; the dict file_info
\* is returned when no file raised
Loaded(file_paths, r) ==
    /\ loaded_files' = r.loaded
    /\ file_info' = r.loaded
    /\ outcome' = [op |-> "load_files", file_path |-> "", sheet_name |-> "", exc |-> r.exc,
                   value |-> IF r.exc = "" THEN r.loaded ELSE None]

LoadFiles ==
    /\ \E file_paths \in PathLists(MaxPaths) : Loaded(file_paths, LoadFrom(file_paths, 1, loaded_files))
    /\ UNCHANGED <<input, today, result, prev>>

GetSheetInfo ==
    /\ \E file_path \in Paths :
          outcome' = Outcome("get_sheet_info", file_path, "", get_sheet_info(loaded_files, file_path))
    /\ UNCHANGED <<input, today, result, prev, loaded_files, file_info>>

ExtractData ==
    /\ \E file_path \in Paths, sheet_name \in SheetNames :
          outcome' = Outcome("extract_data", file_path, sheet_name,
                             extract_data(loaded_files, file_path, sheet_name))
    /\ UNCHANGED <<input, today, result, prev, loaded_files, file_info>>

PreviewData ==
    /\ \E file_path \in Paths, sheet_name \in SheetNames :
          outcome' = Outcome("preview_data", file_path, sheet_name,
                             preview_data(loaded_files, file_path, sheet_name))
    /\ UNCHANGED <<input, today, result, prev, loaded_files, file_info>>

GetAllSheetsData ==
    /\ \E file_path \in Paths :
          outcome' = Outcome("get_all_sheets_data", file_path, "",
                             get_all_sheets_data(loaded_files, file_path))
    /\ UNCHANGED <<input, today, result, prev, loaded_files, file_info>>

ExcelNext == LoadFiles \/ GetSheetInfo \/ ExtractData \/ PreviewData \/ GetAllSheetsData

ExcelSpec == ExcelInit /\ [][ExcelNext]_vars

(***************************************************************************)
(* Properties                                                              *)
(***************************************************************************)
\* the operation op has been called on the argument and has returned or raised
Called(op) == input.op = op /\ result # NoCall

\* the entry of key k of the dict d, or Absent
Absent == [t |-> "absent"]

Get(d, k) == IF k \in DOMAIN d THEN d[k] ELSE Absent

\* the call returned a dict that holds a parsed value
Parsed == result # NoCall /\ ~result.raised /\ Get(result.value, "parsed_value") \notin {None, Absent}

One == Score(1)

Zero == Score(0)

\* C1: whenever parse_amount succeeds, by any rule, parsed_value is not negative
C1_SignInvariant ==
    (Called("parse_amount") /\ Parsed) => ~Negative(result.value["parsed_value"])

\* C2: parse_amount and parse_date return a result dict for every argument and
\* never raise
C2_Totality ==
    (Called("parse_amount") \/ Called("parse_date")) =>
        ~result.raised /\ "parsed_value" \in DOMAIN result.value

\* parse_date has returned on a text that made dateutil raise
C2_Witness ==
    /\ Called("parse_date")
    /\ ~input.null
    /\ strip(input.text) # <<>>
    /\ ~_is_excel_serial_date(strip(input.text))
    /\ ~dateutil_parse(strip(input.text), Days[today]).ok
    /\ ~result.raised

C5_NoDoubleCount ==
    Called("analyze_column") =>
        LET str_data == dropna(input.cells)
        IN  /\ \A k \in 1..Len(str_data) :
                  ~(CountsAsDate(str_data[k]) /\ CountsAsNumber(str_data[k]))
            /\ _detect_date_format(str_data) + _detect_number_format(str_data) <= Len(str_data)

\* C6: parsing the canonical text of a parsed amount or date succeeds and gives
\* the same magnitude, the same calendar date
C6_Idempotence ==
    (input.of # None /\ result # NoCall) =>
        /\ Parsed
        /\ input.of.t = "float" => abs(result.value["parsed_value"]) = abs(input.of)
        /\ input.of.t = "datetime" =>
              /\ result.value["parsed_value"].year = input.of.year
              /\ result.value["parsed_value"].month = input.of.month
              /\ result.value["parsed_value"].day = input.of.day

\* the text 44927 has been passed to parse_date
Serial44927 == Called("parse_date") /\ ~input.null /\ input.text = <<"4", "4", "9", "2", "7">>

\* C7 as amended: parse_date("44927") gives format excel_serial and the date 2023-01-01
C7_Serial ==
    Serial44927 =>
        /\ ~result.raised
        /\ Get(result.value, "format") = Str("excel_serial")
        /\ Get(result.value, "year") = PyInt(2023)
        /\ Get(result.value, "month") = PyInt(1)
        /\ Get(result.value, "day") = PyInt(1)
        /\ Get(result.value, "parsed_value") = DateTime(2023, 1, 1, 0, 0, <<>>)

C7_Witness == Serial44927 /\ Parsed

\* C7 as stated: parse_date("44927") gives format excel_serial and the date 2022-12-31
C7_AsStated ==
    Serial44927 =>
        /\ ~result.raised
        /\ Get(result.value, "format") = Str("excel_serial")
        /\ Get(result.value, "year") = PyInt(2022)
        /\ Get(result.value, "month") = PyInt(12)
        /\ Get(result.value, "day") = PyInt(31)

\* C8: a text Q<q> <YYYY>, q in 1..4, parses with format quarter, quarter q, year
\* YYYY, month (q-1)*3 + 1 and day 1
C8_Quarter ==
    LET str_value == strip(input.text)
        m == re_match(date_patterns[5].pat \o <<Eos>>, str_value)
        q == DigitsToNat(Group(str_value, m, 0, 2))
        y == DigitsToNat(Group(str_value, m, 0, 4))
    IN  (Called("parse_date") /\ ~input.null /\ m.ok) =>
            /\ Parsed
            /\ Get(result.value, "format") = Str("quarter")
            /\ Get(result.value, "quarter") = PyInt(q)
            /\ Get(result.value, "year") = PyInt(y)
            /\ Get(result.value, "month") = PyInt((q - 1) * 3 + 1)
            /\ Get(result.value, "day") = PyInt(1)

\* C9: a call gives what the call before it on the same argument gave, whatever
\* the date of either call
C9_Deterministic == prev # NoCall => result = prev

\* C10: an error result for an argument that is not null holds the trimmed text
\* as original_value, and a reason
C10_ErrorsKeepText ==
    ((Called("parse_amount") \/ Called("parse_date")) /\ ~input.null /\ ~result.raised
     /\ "error" \in DOMAIN result.value) =>
        /\ Get(result.value, "original_value") = Text(strip(input.text))
        /\ result.value["error"].t = "str"

\* the argument is null, or a text that is empty once trimmed
EmptyArgument == input.null \/ strip(input.text) = <<>>

\* C11: for a null argument, an empty text and a text of whitespace only,
\* parse_amount and parse_date return the error 'Empty value'
C11_EmptyValue ==
    ((Called("parse_amount") \/ Called("parse_date")) /\ EmptyArgument) =>
        ~result.raised /\ Get(result.value, "error") = Str("Empty value")

\* C12: a result of parse_amount or parse_date is a success, a parsed value and no
\* error, or an error, an error and a null parsed value, never both
C12_SuccessOrError ==
    (Called("parse_amount") \/ Called("parse_date")) =>
        /\ ~result.raised
        /\ "parsed_value" \in DOMAIN result.value
        /\ "error" \in DOMAIN result.value <=> result.value["parsed_value"] = None

\* parse_amount has returned the error of the standard path
C12_Witness ==
    /\ Called("parse_amount")
    /\ ~EmptyArgument
    /\ ~_is_special_format(strip(input.text))
    /\ ~float(StripCurrency(normalize_currency(strip(input.text)))).ok
    /\ "error" \in DOMAIN result.value

\* digits, or digits, a point and digits
PlainNumber(text) ==
    \/ re_match(<<It(Digit, 1, -1), Eos>>, text).ok
    \/ re_match(<<It(Digit, 1, -1), It({"."}, 1, 1), It(Digit, 1, -1), Eos>>, text).ok

\* the values of the sample in hand, nulls removed
Sample == dropna(input.cells)

\* C13: a sample whose values are all plain numbers, whole numbers between 1000
\* and 73050 among them, is labelled number with confidence over 0.8
C13_PlainNumbers ==
    (Called("analyze_column") /\ Len(Sample) > 0
     /\ \A k \in 1..Len(Sample) : PlainNumber(Sample[k])) =>
        /\ ~result.raised
        /\ Get(result.value, "type") = Str("number")
        /\ Get(result.value, "confidence") = One

\* C14: a sample that is empty once its nulls are removed is labelled unknown,
\* with confidence 0.0 and the three scores 0.0
C14_EmptySample ==
    (Called("analyze_column") /\ Len(Sample) = 0) =>
        /\ ~result.raised
        /\ Get(result.value, "type") = Str("unknown")
        /\ Get(result.value, "confidence") = Zero
        /\ Get(result.value, "scores") = ScoreDict(0, 0, 0)

\* a sample of nulls only has been classified
C14_Witness == Called("analyze_column") /\ Len(input.cells) > 1 /\ Len(Sample) = 0

\* the cells of a column that are not null
RECURSIVE WithoutNulls(_)
WithoutNulls(data) ==
    IF data = <<>> THEN <<>>
    ELSE (IF Head(data).null THEN <<>> ELSE <<Head(data)>>) \o WithoutNulls(Tail(data))

\* C15: a sample is classified as the same sample without its nulls is: same
\* type, confidence and scores
C15_NullsIgnored ==
    Called("analyze_column") => result = analyze_column(WithoutNulls(input.cells))

\* a sample of nulls and values has been classified
C15_Witness ==
    /\ Called("analyze_column")
    /\ Len(Sample) > 0
    /\ Len(Sample) < Len(input.cells)
    /\ Get(result.value, "type") = Str("number")

\* a whole number from 1000 to 73050
WholeSerial(f) ==
    f.ok /\ f.exp >= 0 /\ ~Negative(f) /\ IntDigits(f) <= 5 /\ IntPart(f) \in 1000..73050

\* a value that is a whole number from 1000 to 73050, or whose text begins with
\* a match of one of the date grammars
DateLike(value) == WholeSerial(float(value)) \/ MatchesDatePattern(strip(value))

\* YYYY-MM-DD, the whole text
IsoDate(value) == re_match(detector_date_patterns[2] \o <<Eos>>, value).ok

\* C16: the values counted toward date_score are the whole numbers from 1000 to
\* 73050 and the texts that match a date grammar, each once, so the label is date
\* exactly when they are over half of the sample; a sample of YYYY-MM-DD dates
\* only is labelled date with confidence 1.0
C16_DateCount ==
    (Called("analyze_column") /\ Len(Sample) > 0) =>
        /\ ~result.raised
        /\ Get(result.value, "type") = Str("date")
               <=> 2 * Cardinality({k \in 1..Len(Sample) : DateLike(Sample[k])}) > Len(Sample)
        /\ (\A k \in 1..Len(Sample) : IsoDate(Sample[k])) =>
               /\ Get(result.value, "type") = Str("date")
               /\ Get(result.value, "confidence") = One

\* a sample of several YYYY-MM-DD dates and nothing else has been classified
C16_Witness ==
    /\ Called("analyze_column")
    /\ Len(Sample) > 1
    /\ \A k \in 1..Len(Sample) : IsoDate(Sample[k])

\* the trimmed text of the argument
Trimmed == strip(input.text)

\* the text but for its last character
ButLast(text) == SubSeq(text, 1, Len(text) - 1)

\* the power of ten of a suffix
PowOf(suffix) == CASE suffix = "K" -> 3 [] suffix = "M" -> 6 [] suffix = "B" -> 9 [] suffix = "T" -> 12

\* suffix: the last character in upper case; base: the float the rest parses to
AbbreviatedResult(suffix, base) ==
    /\ Parsed
    /\ result.value["parsed_value"] = Float(Times10(base, PowOf(suffix)))
    /\ Get(result.value, "abbreviation") = Str(suffix)
    /\ Get(result.value, "multiplier") = Float(MkFloat(FALSE, <<"1">>, PowOf(suffix)))
    /\ Get(result.value, "base_value") = Float(base)
    /\ Get(result.value, "is_negative") = Bool(FALSE)

\* the text ends in K, M, B or T, in either case, and the rest parses as a float
Abbreviated(text) ==
    /\ Len(text) > 1
    /\ UpperChr(text[Len(text)]) \in {"K", "M", "B", "T"}
    /\ float(ButLast(text)).ok

\* C17: for a text that ends in K, M, B or T, in either case, and whose rest
\* parses as a float base, parsed_value is base times 1e3, 1e6, 1e9 or 1e12,
\* abbreviation is the suffix in upper case, multiplier and base_value are
\* reported and is_negative is false
C17_Abbreviated ==
    (Called("parse_amount") /\ ~input.null /\ Abbreviated(Trimmed)) =>
        AbbreviatedResult(UpperChr(Trimmed[Len(Trimmed)]), float(ButLast(Trimmed)))

\* a text with a lower-case suffix and a base with a fraction has been parsed
C17_Witness ==
    /\ Called("parse_amount")
    /\ ~input.null
    /\ Abbreviated(Trimmed)
    /\ Trimmed[Len(Trimmed)] \in Lower
    /\ ~IsIntegral(float(ButLast(Trimmed)))

\* x: the float of the text inside the notation, after normalize_currency
NegativeResult(x, format) ==
    /\ Parsed
    /\ result.value["parsed_value"] = Float([neg |-> FALSE, dig |-> x.dig, exp |-> x.exp])
    /\ Get(result.value, "is_negative") = Bool(TRUE)
    /\ Get(result.value, "format") = Str(format)

Parenthesised(text) == Len(text) >= 2 /\ text[1] = "(" /\ text[Len(text)] = ")"

InParentheses(text) == float(normalize_currency(SubSeq(text, 2, Len(text) - 1)))

BeforeMinus(text) == float(normalize_currency(ButLast(text)))

\* C18: for a text in parentheses, or ending in '-', whose inner text is a number x
\* after separator normalization, parsed_value is |x|, is_negative is true and
\* format is parentheses_negative, trailing_negative
C18_NegativeNotations ==
    (Called("parse_amount") /\ ~input.null) =>
        /\ (Parenthesised(Trimmed) /\ InParentheses(Trimmed).ok) =>
               NegativeResult(InParentheses(Trimmed), "parentheses_negative")
        /\ (Len(Trimmed) >= 1 /\ Trimmed[Len(Trimmed)] = "-" /\ BeforeMinus(Trimmed).ok) =>
               NegativeResult(BeforeMinus(Trimmed), "trailing_negative")

\* a text that ends in '-' and whose rest is a number below zero has been parsed
C18_Witness ==
    /\ Called("parse_amount")
    /\ ~input.null
    /\ Len(Trimmed) >= 1
    /\ Trimmed[Len(Trimmed)] = "-"
    /\ BeforeMinus(Trimmed).ok
    /\ Negative(BeforeMinus(Trimmed))

\* ,ddd any number of times
RECURSIVE CommaGroups(_)
CommaGroups(s) ==
    \/ s = <<>>
    \/ /\ Len(s) >= 4
       /\ s[1] = ","
       /\ \A i \in 2..4 : s[i] \in Digit
       /\ CommaGroups(SubSeq(s, 5, Len(s)))

\* one to three digits, then ,ddd at least once
Grouped(s) ==
    \E n \in 1..3 :
        /\ Len(s) > n
        /\ \A i \in 1..n : s[i] \in Digit
        /\ CommaGroups(SubSeq(s, n + 1, Len(s)))

\* a comma-grouped whole number, or one followed by a point and digits
GroupedNumber(s) ==
    \/ Grouped(s)
    \/ \E p \in 2..(Len(s) - 1) :
          /\ s[p] = "."
          /\ Grouped(SubSeq(s, 1, p - 1))
          /\ \A i \in (p + 1)..Len(s) : s[i] \in Digit

\* a comma-grouped number, after a currency symbol or not, that the European test
\* does not take
PlainGrouped(text) ==
    /\ text # <<>>
    /\ GroupedNumber(IF text[1] \in CurrencyChar THEN Tail(text) ELSE text)
    /\ ~re_search(EuropeanPattern, text)

\* C19: on the standard path, the European convention not detected, every comma
\* of a number with one or more comma groups is removed before the number is
\* parsed, and the format is standard
C19_CommaGroups ==
    (Called("parse_amount") /\ ~input.null /\ PlainGrouped(Trimmed)) =>
        /\ Parsed
        /\ result.value["parsed_value"] = Float(float(replace(StripCurrency(Trimmed), ",", <<>>)))
        /\ Get(result.value, "format") = Str("standard")

\* the code of the table for a symbol
IsoCode(symbol) ==
    CASE symbol = "$" -> "USD" [] symbol = "€" -> "EUR" [] symbol = "₹" -> "INR"
      [] symbol = "£" -> "GBP" [] symbol = "¥" -> "JPY"

\* the currency symbols a text holds
SymbolsOf(text) == {text[i] : i \in 1..Len(text)} \cap CurrencyChar

\* do a dict and a result of parse_amount hold the same amount: value and sign
SameAmount(d, r) ==
    /\ ~r.raised
    /\ Get(r.value, "parsed_value") = d["parsed_value"]
    /\ Get(r.value, "is_negative") = d["is_negative"]

\* the symbol leads or ends the text
SymbolAtEdge(text) == SymbolsOf(text) # {} /\ SymbolsOf(SubSeq(text, 2, Len(text) - 1)) = {}

C21_CalendarDate ==
    (Called("parse_date") /\ Parsed) =>
        /\ result.value["parsed_value"].t = "datetime"
        /\ result.value["parsed_value"].month \in 1..12
        /\ result.value["parsed_value"].day
               \in 1..DaysInMonth(result.value["parsed_value"].year,
                                  result.value["parsed_value"].month)
        /\ Get(result.value, "year") = PyInt(result.value["parsed_value"].year)
        /\ Get(result.value, "month") = PyInt(result.value["parsed_value"].month)
        /\ Get(result.value, "day") = PyInt(result.value["parsed_value"].day)

\* a text has been parsed by a positional grammar, after dateutil refused it
C21_Witness ==
    /\ Called("parse_date")
    /\ Parsed
    /\ Get(result.value, "format") = Str("DD-MON-YYYY")

\* the last call was one of the four reading methods
ReadCall == outcome.op \in {"get_sheet_info", "extract_data", "preview_data", "get_all_sheets_data"}

\* C22: in any sequence of calls, get_sheet_info, extract_data, preview_data and
\* get_all_sheets_data raise ValueError for a path no load_files call has loaded
\* and leave loaded_files as it was; extract_data on a loaded file raises
\* ValueError for a sheet name the file has not
C22_Unloaded ==
    /\ [](ReadCall /\ outcome.file_path \notin DOMAIN loaded_files => outcome.exc = "ValueError")
    /\ [](/\ outcome.op = "extract_data"
          /\ outcome.file_path \in DOMAIN loaded_files
          /\ outcome.sheet_name # ""
          /\ ~InSheets(loaded_files[outcome.file_path], outcome.sheet_name)
          => outcome.exc = "ValueError")
    /\ [][outcome'.op \in {"get_sheet_info", "extract_data", "preview_data",
                           "get_all_sheets_data"}
          => loaded_files' = loaded_files]_vars

\* a reading method has raised for a path not loaded, after other files were loaded
C22_Witness ==
    /\ ReadCall
    /\ loaded_files # EmptyDict
    /\ outcome.file_path \notin DOMAIN loaded_files
    /\ outcome.exc = "ValueError"

\* .ddd any number of times
RECURSIVE DotGroups(_)
DotGroups(s) ==
    \/ s = <<>>
    \/ /\ Len(s) >= 4
       /\ s[1] = "."
       /\ \A i \in 2..4 : s[i] \in Digit
       /\ DotGroups(SubSeq(s, 5, Len(s)))

\* one to three digits, then .ddd at least once
DotGrouped(s) ==
    \E n \in 1..3 :
        /\ Len(s) > n
        /\ \A i \in 1..n : s[i] \in Digit
        /\ DotGroups(SubSeq(s, n + 1, Len(s)))

\* dot-grouped thousands, a comma and the digits of the fraction
EuropeanNumber(s) ==
    \E p \in 2..(Len(s) - 1) :
        /\ s[p] = ","
        /\ DotGrouped(SubSeq(s, 1, p - 1))
        /\ \A i \in (p + 1)..Len(s) : s[i] \in Digit

\* a European number, after a currency symbol or not
EuropeanAmount(text) ==
    text # <<>> /\ EuropeanNumber(IF text[1] \in CurrencyChar THEN Tail(text) ELSE text)

\* C23: for a European amount, thousands grouped by dots in one or more groups and
\* a comma before the fraction, parse_amount gives the number with the dots
\* removed and the comma read as the decimal point
C23_European ==
    (Called("parse_amount") /\ ~input.null /\ EuropeanAmount(Trimmed)) =>
        /\ Parsed
        /\ result.value["parsed_value"]
               = Float(float(replace(replace(StripCurrency(Trimmed), ".", <<>>), ",", <<".">>)))

\* digits, a point and four digits or more
LongFraction(text) ==
    re_match(<<It(Digit, 1, -1), It({"."}, 1, 1), It(Digit, 4, -1), Eos>>, text).ok

\* C24: a text whose point is followed by four digits or more is not taken for
\* European, and parse_amount gives its decimal value
C24_LongFraction ==
    (Called("parse_amount") /\ ~input.null /\ LongFraction(Trimmed)) =>
        /\ Parsed
        /\ result.value["parsed_value"] = Float(float(Trimmed))

\* the result is the serial date d
SerialResult(d) ==
    /\ Parsed
    /\ Get(result.value, "format") = Str("excel_serial")
    /\ Get(result.value, "year") = PyInt(d.year)
    /\ Get(result.value, "month") = PyInt(d.month)
    /\ Get(result.value, "day") = PyInt(d.day)

\* n: the number the text parses to.  The days from 1900-01-01 to its date, whole
AfterEpoch(n) ==
    IF IntPart(n) > 59 \/ (IntPart(n) = 59 /\ FracDigits(n) # <<>>)
    THEN IntPart(n) - 2
    ELSE IntPart(n) - 1

February28 == [year |-> 1900, month |-> 2, day |-> 28]

\* C25: a text that parses as a number n from 1 to 100000 gives format
\* excel_serial and the date n - 1 days after 1900-01-01 when n <= 59, n - 2 days
\* after it when n > 59 (so 59 and 60 both give 1900-02-28); a number outside
\* the range is not a serial date
C25_SerialRange ==
    (Called("parse_date") /\ ~input.null /\ float(Trimmed).ok) =>
        /\ Between(float(Trimmed), 1, 100000) => SerialResult(DateAfter1900(AfterEpoch(float(Trimmed))))
        /\ Trimmed \in {<<"5", "9">>, <<"6", "0">>} => SerialResult(February28)
        /\ ~Between(float(Trimmed), 1, 100000) => Get(result.value, "format") # Str("excel_serial")

\* a number over 59 with a fraction has been parsed as a serial date
C25_Witness ==
    /\ Called("parse_date")
    /\ ~input.null
    /\ float(Trimmed).ok
    /\ IntPart(float(Trimmed)) >= 59
    /\ FracDigits(float(Trimmed)) # <<>>
    /\ Get(result.value, "format") = Str("excel_serial")

\* Q<q>-<YY>, the whole text
QuarterShortText(text) == re_match(QuarterShortPattern \o <<Eos>>, text).ok

\* the result is the quarter q of the year
QuarterResult(format, q, year) ==
    /\ Parsed
    /\ Get(result.value, "format") = Str(format)
    /\ Get(result.value, "quarter") = PyInt(q)
    /\ Get(result.value, "year") = PyInt(year)
    /\ Get(result.value, "month") = PyInt((q - 1) * 3 + 1)
    /\ Get(result.value, "day") = PyInt(1)

\* C26: parse_date gives a quarter_short result exactly for the texts Q<q>-<YY>,
\* q from 1 to 4 and YY two digits, with year 2000 + YY, month (q-1)*3 + 1, day 1
\* and quarter q; a text with four digits after the dash is not one of them
C26_QuarterShort ==
    (Called("parse_date") /\ ~input.null) =>
        /\ Get(result.value, "format") = Str("quarter_short") <=> QuarterShortText(Trimmed)
        /\ QuarterShortText(Trimmed) =>
               QuarterResult("quarter_short", DigitVal(Trimmed[2]),
                             2000 + DigitsToNat(SubSeq(Trimmed, 4, 5)))

\* <word> <YYYY>, the whole text
MonthYearText(text) == re_match(date_patterns[6].pat \o <<Eos>>, text).ok

\* Q<q> <YYYY>, the whole text
QuarterText(text) == re_match(date_patterns[5].pat \o <<Eos>>, text).ok

\* C27: a text <word> <YYYY> that dateutil refuses and that is no quarter form
\* parses with format month_year, year YYYY, day 1 and the month of the table of
\* full month names, 1 for a word that is not in it
C27_MonthYear ==
    (Called("parse_date") /\ ~input.null /\ MonthYearText(Trimmed) /\ ~QuarterText(Trimmed)
     /\ ~_is_excel_serial_date(Trimmed) /\ ~dateutil_parse(Trimmed, Days[today]).ok) =>
        /\ Parsed
        /\ Get(result.value, "format") = Str("month_year")
        /\ Get(result.value, "year") = PyInt(DigitsToNat(split(Trimmed)[2]))
        /\ Get(result.value, "month") = PyInt(_month_name_to_num(split(Trimmed)[1]))
        /\ Get(result.value, "day") = PyInt(1)

\* digits and dots, then K, M, B or T in either case
AbbreviatedText(text) ==
    re_match(<<It(Digit \cup {"."}, 1, -1),
               It({"K", "M", "B", "T", "k", "m", "b", "t"}, 1, 1), Eos>>, text).ok

\* parse_amount takes the text by the abbreviated rule
AbbreviatedAmount(text) ==
    "abbreviation" \in DOMAIN parse_amount([null |-> FALSE, text |-> text]).value

\* C28: a text of digits and dots before K, M, B or T that parse_amount takes by
\* the abbreviated rule counts toward number_score, so a sample of such texts
\* only is labelled number
C28_SuffixSets ==
    (Called("analyze_column") /\ Len(Sample) > 0
     /\ \A k \in 1..Len(Sample) : AbbreviatedText(Sample[k]) /\ AbbreviatedAmount(Sample[k])) =>
        /\ _detect_number_format(Sample) = Len(Sample)
        /\ Get(result.value, "type") = Str("number")

\* C29: a value the classifier counts as date-like, a whole number from 1000 to
\* 73050 or a text that begins with a match of one of its date patterns, is
\* parsed by parse_date with no error
C29_DateLikeParses ==
    (Called("parse_date") /\ ~input.null /\ CountsAsDate(input.text)) =>
        Parsed /\ "error" \notin DOMAIN result.value

\* C30: a value the classifier counts toward number_score is parsed by
\* parse_amount with no error
C30_NumberLikeParses ==
    (Called("parse_amount") /\ ~input.null /\ CountsAsNumber(input.text)) =>
        Parsed /\ "error" \notin DOMAIN result.value

====
